---- MODULE Spec2Model ----
(***************************************************************************)
(* A model of air/src/proof/mod.rs of winterfell: the StarkProof container, *)
(* its serialization, and the conjectured / proven security estimators.     *)
(*                                                                          *)
(* Numbers.  The estimators work on u32 / u64 integers and on f64 values.   *)
(*   - A u32 is held as the signed 32-bit integer with the same bit pattern *)
(*     (two's complement), so that wrapping subtraction is plain            *)
(*     subtraction and the unsigned order is ULt below.                     *)
(*   - An f64 that the code only ever feeds to log2 and then truncates to   *)
(*     an integer is held by its base-2 logarithm as a fixed-point number   *)
(*     with FracBits fractional bits: log2(x * y) is a sum, log2(powf(x,e)) *)
(*     is e * log2(x) and log2(sqrt(x)) is log2(x) / 2.  The truncations    *)
(*     (`as u64`, ceil) are taken on these values; ceil of m_plus is        *)
(*     decided exactly, on integers.                                        *)
(***************************************************************************)
EXTENDS Integers, Sequences, FiniteSets, TLC

\* ------------------------------------------------------------------ bounds

\* blowup factors are 2^1 .. 2^MaxLogBlowup
MaxLogBlowup == 3
\* the short traces are 2^3 .. 2^MaxLogTrace long (TraceInfo::MIN_TRACE_LENGTH
\* is 8)
MaxLogTrace == 4
\* the proof-of-work nonces, sub-object payload bytes and lengths of the codec
MaxByte == 1

Blowups == {2 ^ l : l \in 1..MaxLogBlowup}
ShortTraces == {2 ^ l : l \in 3..MaxLogTrace}
\* the trace lengths of the tests of the source (2^16, 2^18 and 2^20)
LongTraces == {2 ^ 16, 2 ^ 18, 2 ^ 20}
\* numbers of queries: 2 * 40 and 1 * 80 meet GRINDING_CONTRIBUTION_FLOOR
QuerySet == {1, 20, 40, 80}
GrindingSet == {0, 20}
\* FieldExtension::None, Quadratic, Cubic by degree
Degrees == {1, 2, 3}
\* num_modulus_bits: a 6-bit modulus, and the 64-bit field of the tests
FieldBits == {6, 64}
\* Hasher::COLLISION_RESISTANCE (Blake3_192, Blake3_256)
CollisionResistances == {96, 128}

\* ---------------------------------------------------------------- constants

GRINDING_CONTRIBUTION_FLOOR == 80
MAX_PROXIMITY_PARAMETER == 1000
\* `let m_min: usize = 3` in get_proven_security
m_min == 3

\* ------------------------------------------------------------ u32 arithmetic

\* unsigned order on u32 bit patterns held as signed integers
ULt(a, b) == IF (a >= 0) = (b >= 0) THEN a < b ELSE a >= 0
ULe(a, b) == a = b \/ ULt(a, b)
\* cmp::min on unsigned integers
umin(a, b) == IF ULt(b, a) THEN b ELSE a

Min(a, b) == IF b < a THEN b ELSE a

\* the element of a one-element set.  A `let` of the code that is read more
\* than once is bound as v in {e(v) : v \in {value}}: the value is then
\* computed once, where a LET definition is computed again at every use
The(S) == CHOOSE v \in S : TRUE

\* usize::ilog2 / u32::ilog2: floor of the base-2 logarithm, for 1 <= n < 2^30
ilog2(n) == CHOOSE e \in 0..29 : 2 ^ e <= n /\ n < 2 * 2 ^ e

\* ------------------------------------------------------- fixed-point log2

\* fractional bits of a fixed-point logarithm
FracBits == 20
\* fractional bits of the mantissa the logarithm is extracted from, and the
\* place where a mantissa is split for a product
MantBits == FracBits + 8
SplitBits == (MantBits + 1) \div 2
Scale == 2 ^ FracBits
MantOne == 2 ^ MantBits
Split == 2 ^ SplitBits

\* the product of two mantissas in [1, 2), truncated to MantBits fractional
\* bits, without leaving 32-bit integers
MulFix(a, b) ==
    LET ah == a \div Split
        al == a % Split
        bh == b \div Split
        bl == b % Split
    IN  ah * bh * 2 ^ (2 * SplitBits - MantBits)
        + (ah * bl + al * bh) \div 2 ^ (MantBits - SplitBits)
        + (al * bl) \div MantOne

\* one squaring of the mantissa p[1] in [1, 2): squaring doubles the
\* logarithm, whose integer part is the next bit of the fraction p[2]
SquareStep(p) ==
    LET sq == MulFix(p[1], p[1])
    IN  IF sq >= 2 * MantOne THEN <<sq \div 2, 2 * p[2] + 1>>
                             ELSE <<sq, 2 * p[2]>>

\* one squaring of the one pair in S (a set, so that the pair is evaluated
\* once)
Squared(S) == {SquareStep(p) : p \in S}

\* log2 of the integer 1 <= n < 2^30 as a fixed-point number: the exponent,
\* then the FracBits bits of the fraction, one per squaring of the mantissa
\* (all of them 0 for a power of two)
log2_digits(n) ==
    LET e == ilog2(n)
        mantissa == IF e <= MantBits THEN n * 2 ^ (MantBits - e)
                                     ELSE n \div 2 ^ (e - MantBits)
        squarings[i \in 0..FracBits] ==
            IF i = 0 THEN {<<mantissa, 0>>} ELSE Squared(squarings[i - 1])
    IN  IF n = 2 ^ e THEN e * Scale
        ELSE e * Scale + The(squarings[FracBits])[2]

\* the logarithms the estimators take again and again: of 2m + 1, 2 m_plus and
\* 2 m_plus + 1
LogTable == SubSeq([n \in 1..(2 * MAX_PROXIMITY_PARAMETER + 64) |-> log2_digits(n)], 1, 2 * MAX_PROXIMITY_PARAMETER + 64)

\* log2 (f64::log2 / libm::log2) of the integer n: read from LogTable where n
\* is tabulated, computed otherwise
log2(n) == IF n <= Len(LogTable) THEN LogTable[n] ELSE log2_digits(n)

\* `as u64` of the f64 whose fixed-point image is v: truncation toward zero,
\* saturating at 0 for negative values
as_u64(v) == IF v <= 0 THEN 0 ELSE v \div Scale

\* the digits, base 2^15, of the product of a and b, both below 2^30
Product(a, b) ==
    LET B == 2 ^ 15
        a1 == a \div B
        a0 == a % B
        b1 == b \div B
        b0 == b % B
        t0 == a0 * b0
        t1 == a1 * b0 + a0 * b1 + t0 \div B
    IN  <<a1 * b1 + t1 \div B, t1 % B, t0 % B>>

\* x / y >= z / w for positive integers below 2^30: x * w >= z * y, compared
\* digit by digit
GeFrac(x, y, z, w) ==
    LET l == Product(x, w)
        r == Product(z, y)
    IN  \/ l[1] > r[1]
        \/ l[1] = r[1] /\ l[2] > r[2]
        \/ l[1] = r[1] /\ l[2] = r[2] /\ l[3] >= r[3]

\* ------------------------------------------------------ security estimators

\* ProofOptions as the estimators read it: num_queries(), blowup_factor(),
\* grinding_factor() and field_extension().degree()
Options(q, b, g, d) ==
    [num_queries |-> q, blowup_factor |-> b, grinding_factor |-> g, degree |-> d]

Ok(v) == [kind |-> "ok", value |-> v]
Panic == [kind |-> "panic"]

\* get_conjectured_security with the grinding factor counted only strictly
\* above GRINDING_CONTRIBUTION_FLOOR
get_conjectured_security_above_floor(options, base_field_bits, trace_domain_size, collision_resistance, overflow_checks) ==
    LET field_size == base_field_bits * options.degree
        lde_bits == ilog2(trace_domain_size * options.blowup_factor)
        field_security == field_size - lde_bits
        query_security0 == ilog2(options.blowup_factor) * options.num_queries
        query_security ==
            IF query_security0 > GRINDING_CONTRIBUTION_FLOOR
            THEN query_security0 + options.grinding_factor
            ELSE query_security0
        least == umin(field_security, query_security)
    IN  IF overflow_checks /\ (ULt(field_size, lde_bits) \/ least = 0)
        THEN Panic
        ELSE Ok(umin(least - 1, collision_resistance))

\* Computes conjectured security level for the specified proof parameters.
\* overflow_checks: whether the build panics on integer overflow (debug) or
\* wraps (release).
get_conjectured_security(options, base_field_bits, trace_domain_size, collision_resistance, overflow_checks) ==
    LET field_size == base_field_bits * options.degree
        lde_bits == ilog2(trace_domain_size * options.blowup_factor)
        field_security == field_size - lde_bits
        security_per_query == ilog2(options.blowup_factor)
        query_security0 == security_per_query * options.num_queries
        query_security ==
            IF query_security0 >= GRINDING_CONTRIBUTION_FLOOR
            THEN query_security0 + options.grinding_factor
            ELSE query_security0
        least == umin(field_security, query_security)
    IN  IF overflow_checks /\ (ULt(field_size, lde_bits) \/ least = 0)
        THEN Panic
        ELSE Ok(umin(least - 1, collision_resistance))

\* Computes the largest proximity parameter m needed for Theorem 8.
\* ceil(0.25 * h * (1 + sqrt(1 + 2/h))) = ceil((h + sqrt(h^2 + 2h)) / 4), and
\* h < sqrt(h^2 + 2h) < h + 1, so the value lies strictly between h/2 and
\* h/2 + 1/4: its ceiling is h \div 2 + 1.
compute_upper_m(h) ==
    LET m_max == h \div 2 + 1
    IN  Min(m_max, MAX_PROXIMITY_PARAMETER)

\* k >= 1 / (2 * (alpha / sqrt(rho_plus) - 1)), decided on integers:
\* alpha / sqrt(rho_plus) = (2m+1)/(2m) * sqrt(h/(h+2)), so the inequality is
\* sqrt(h/(h+2)) >= (2km+m)/(2km+k), that is h*(k-m)*(4km+m+k) >= 2*(2km+m)^2
MPlusReached(h, m, k) ==
    /\ k > m
    /\ GeFrac(h * (k - m), 2 * k * m + m, 2 * (2 * k * m + m), 4 * k * m + m + k)

\* the least k in lo+1 .. hi with MPlusReached, which holds at hi, not at lo
RECURSIVE MPlusBisect(_, _, _, _)
MPlusBisect(h, m, lo, hi) ==
    IF hi - lo <= 1 THEN hi
    ELSE The({IF MPlusReached(h, m, mid) THEN MPlusBisect(h, m, lo, mid)
                                         ELSE MPlusBisect(h, m, mid, hi) :
              mid \in {(lo + hi) \div 2}})

\* the least k above lo with MPlusReached, which does not hold at lo: by
\* doubling steps, then by bisection
RECURSIVE MPlusSearch(_, _, _, _)
MPlusSearch(h, m, lo, step) ==
    The({IF MPlusReached(h, m, hi) THEN MPlusBisect(h, m, lo, hi)
                                   ELSE MPlusSearch(h, m, hi, 2 * step) :
         hi \in {lo + step}})

\* m_plus = ceil(1.0 / (2.0 * (alpha / sqrt(rho_plus) - 1.0)))
m_plus_of(h, m) == MPlusSearch(h, m, m, 1)

\* extension_field_bits without the degree of the extension
extension_field_bits_of_base(options, base_field_bits) ==
    base_field_bits * Scale

\* extension_field_bits = base_field_bits * degree, as an f64
extension_field_bits(options, base_field_bits) ==
    base_field_bits * options.degree * Scale

\* log2_rho_plus with the quotient turned over
log2_rho_plus_inverted(trace_domain_size, lde_domain_size) ==
    log2(lde_domain_size) - log2(trace_domain_size + 2)

\* log2 of rho_plus = (trace_domain_size + num_openings) / lde_domain_size,
\* the modified rate in the function field F(Z); num_openings = 2
log2_rho_plus(trace_domain_size, lde_domain_size) ==
    log2(trace_domain_size + 2) - log2(lde_domain_size)

\* log2 of alpha_plus = (1 + 0.5 / m_plus) * sqrt(rho_plus); theta_plus is
\* 1 - alpha_plus, and the code reads 1 - theta_plus, alpha_plus again
log2_alpha_plus(m_plus, log_rho_plus) ==
    (log2(2 * m_plus + 1) - log2(2 * m_plus)) + log_rho_plus \div 2

\* log2 of the list size l_plus = (2 * m_plus + 1) / (2 * sqrt(rho_plus))
log2_l_plus(m_plus, log_rho_plus) ==
    log2(2 * m_plus + 1) - Scale - log_rho_plus \div 2

\* fri_commit_err_bits without the factor lde_domain_size^2
fri_commit_err_bits_without_domain(options, base_field_bits, trace_domain_size, m) ==
    extension_field_bits(options, base_field_bits)
    - (7 * (log2(2 * m + 1) - Scale) - Scale
       + (3 * log2(options.blowup_factor)) \div 2)

\* FRI commit-phase soundness error, in bits:
\* log2 of 0.5 * (m + 0.5)^7 / rho^1.5 * lde_domain_size^2 under the field
\* size, with rho = 1 / blowup_factor
fri_commit_err_bits(options, base_field_bits, trace_domain_size, m) ==
    extension_field_bits(options, base_field_bits)
    - (7 * (log2(2 * m + 1) - Scale) - Scale
       + (3 * log2(options.blowup_factor)) \div 2
       + 2 * log2(trace_domain_size * options.blowup_factor))

\* fri_queries_err_bits with the logarithm added, not subtracted
fri_queries_err_bits_added(options, log_alpha_plus) ==
    options.grinding_factor * Scale + options.num_queries * log_alpha_plus

\* FRI query-phase soundness error, in bits:
\* grinding_factor - log2((1 - theta_plus)^num_fri_queries)
fri_queries_err_bits(options, log_alpha_plus) ==
    options.grinding_factor * Scale - options.num_queries * log_alpha_plus

\* ALI related soundness error, in bits
ali_err_bits(options, base_field_bits, log_l_plus) ==
    extension_field_bits(options, base_field_bits) - log_l_plus

\* DEEP related soundness error, in bits: the list size times
\* max_deg * (h + num_openings - 1) + (h - 1), with max_deg = blowup + 1
deep_err_bits(options, base_field_bits, trace_domain_size, log_l_plus) ==
    extension_field_bits(options, base_field_bits)
    - (log_l_plus
       + log2((options.blowup_factor + 1) * (trace_domain_size + 1)
              + (trace_domain_size - 1)))

\* The error terms of proven_security_protocol_for_m for the proximity
\* parameter m, each after its `as u64`
err_bits(options, base_field_bits, trace_domain_size, m) ==
    The({[fri_commit_err_bits |->
              as_u64(fri_commit_err_bits(options, base_field_bits, trace_domain_size, m)),
          fri_queries_err_bits |->
              as_u64(fri_queries_err_bits(options, log2_alpha_plus(m_plus, log_rho_plus))),
          ali_err_bits |->
              as_u64(ali_err_bits(options, base_field_bits,
                                  log2_l_plus(m_plus, log_rho_plus))),
          deep_err_bits |->
              as_u64(deep_err_bits(options, base_field_bits, trace_domain_size,
                                   log2_l_plus(m_plus, log_rho_plus)))] :
         log_rho_plus \in {log2_rho_plus(trace_domain_size,
                                         trace_domain_size * options.blowup_factor)},
         m_plus \in {m_plus_of(trace_domain_size, m)}})

\* the combination of the error terms: FRI is the smaller of its two phases,
\* and each of the two `- 1` is guarded by a return of 0
security_of_err_bits(bits) ==
    LET fri_err_bits == Min(bits.fri_commit_err_bits, bits.fri_queries_err_bits)
        min == Min(Min(fri_err_bits - 1, bits.ali_err_bits), bits.deep_err_bits)
    IN  IF fri_err_bits < 1 THEN 0
        ELSE IF min < 1 THEN 0
        ELSE min - 1

\* Computes proven security level for the specified proof parameters for a
\* fixed value of the proximity parameter m in the list-decoding regime.
proven_security_protocol_for_m(options, base_field_bits, trace_domain_size, m) ==
    The({security_of_err_bits(bits) :
         bits \in {err_bits(options, base_field_bits, trace_domain_size, m)}})

\* Iterator::min_by_key in the place of max_by_key: the first element with
\* the least key
min_by_key(keys) ==
    CHOOSE i \in 1..Len(keys) :
        \A j \in 1..Len(keys) : keys[j] > keys[i] \/ (keys[j] = keys[i] /\ j >= i)

\* Iterator::max_by_key over the elements 1 .. Len(keys), keys[i] the key of
\* element i: the last element with the greatest key
max_by_key(keys) ==
    CHOOSE i \in 1..Len(keys) :
        \A j \in 1..Len(keys) : keys[j] < keys[i] \/ (keys[j] = keys[i] /\ j <= i)

\* the m_optimal of get_proven_security: the element of m_min .. m_max - 1
\* that max_by_key picks, each keyed by proven_security_protocol_for_m
m_optimal(options, base_field_bits, trace_domain_size) ==
    LET count == compute_upper_m(trace_domain_size) - m_min
    IN  The({m_min + max_by_key(keys) - 1 :
             keys \in {SubSeq([i \in 1..count |-> proven_security_protocol_for_m(options, base_field_bits, trace_domain_size, m_min + i - 1)], 1, count)}})

\* get_proven_security without the final min with collision_resistance
get_proven_security_unclamped(options, base_field_bits, trace_domain_size, collision_resistance) ==
    IF m_min >= compute_upper_m(trace_domain_size)
    THEN Panic
    ELSE Ok(proven_security_protocol_for_m(options, base_field_bits, trace_domain_size,
                                           m_optimal(options, base_field_bits, trace_domain_size)))

\* Estimates proven security level for the specified proof parameters.
get_proven_security(options, base_field_bits, trace_domain_size, collision_resistance) ==
    IF m_min >= compute_upper_m(trace_domain_size)
    THEN Panic   \* .expect() on None: the range m_min .. m_max is empty
    ELSE Ok(Min(proven_security_protocol_for_m(options, base_field_bits, trace_domain_size,
                                               m_optimal(options, base_field_bits, trace_domain_size)),
                collision_resistance))

\* --------------------------------------------------------------- the state

\* proof:  the StarkProof a prover or a decoder has produced
\* wire:   the bytes a proof was written to, as they reach from_bytes
\* read:   what from_bytes returned
\* params: the context, the mode and the hasher of a security_level call
\* level:  what that call returned
\* params_before, level_before: the call before, and its result, once one
\*         parameter of the context has been changed
VARIABLES proof, wire, read, params, level, params_before, level_before

vars == <<proof, wire, read, params, level, params_before, level_before>>

None == [kind |-> "none"]

\* Context as this module reads it: options(), num_modulus_bits(),
\* trace_length() and trace_layout().num_segments()
Context(options, num_modulus_bits, trace_length, num_segments) ==
    [options |-> options, num_modulus_bits |-> num_modulus_bits,
     trace_length |-> trace_length, num_segments |-> num_segments]

\* Returns STARK protocol parameters used to generate this proof.
options(self) == self.context.options

\* Returns trace length for the computation described by this proof, were
\* it the trace length with one more doubling per unique query
trace_length_per_unique_query(self) ==
    self.context.trace_length * (2 ^ self.num_unique_queries)

\* Returns trace length for the computation described by this proof.
trace_length(self) == self.context.trace_length

\* Returns the size of the LDE domain for the computation described by this
\* proof.
lde_domain_size(self) == self.context.trace_length * self.context.options.blowup_factor

\* Returns security level of this proof (in bits), conjectured or proven
security_level(self, conjectured, COLLISION_RESISTANCE, overflow_checks) ==
    IF conjectured
    THEN get_conjectured_security(self.context.options, self.context.num_modulus_bits,
                                  trace_length(self), COLLISION_RESISTANCE, overflow_checks)
    ELSE get_proven_security(self.context.options, self.context.num_modulus_bits,
                             trace_length(self), COLLISION_RESISTANCE)

\* ------------------------------------------------- the security estimators

\* a security_level call: the context of the proof, the mode, the hasher
Call(conjectured, q, b, g, d, bits, h, cr) ==
    [context |-> Context(Options(q, b, g, d), bits, h, 1),
     conjectured |-> conjectured, COLLISION_RESISTANCE |-> cr]

\* every combination of the small parameters, in both modes
ShortCalls ==
    {Call(c, q, b, g, d, bits, h, cr) :
        c \in BOOLEAN, q \in QuerySet, b \in Blowups, g \in GrindingSet,
        d \in Degrees, bits \in FieldBits, h \in ShortTraces,
        cr \in CollisionResistances}

\* the parameter sets of prove_security_tests: a 64-bit base field, grinding
\* factor 20, collision resistance 128, as <<degree, blowup, queries, trace>>
TestCalls ==
    {Call(FALSE, t[3], t[2], 20, t[1], 64, t[4], 128) :
        t \in {<<3, 8, 85, 2 ^ 18>>, <<2, 8, 85, 2 ^ 18>>, <<2, 16, 85, 2 ^ 18>>,
               <<3, 8, 80, 2 ^ 16>>, <<3, 8, 80, 2 ^ 18>>, <<3, 8, 80, 2 ^ 20>>,
               <<3, 8, 60, 2 ^ 20>>}}

\* get_proven_security is defined for every usize: proven calls for every
\* trace size up to the longest short trace, powers of two or not
AnySizeCalls ==
    {Call(FALSE, 20, 2, 20, 3, 64, h, 128) : h \in 1..(2 ^ MaxLogTrace)}

Calls == ShortCalls \cup TestCalls \cup AnySizeCalls

\* the parameters of a call one by one: 1 queries, 2 blowup, 3 grinding,
\* 4 extension degree, 5 modulus bits, 6 trace length, 7 collision
\* resistance, 8 mode
Parameters(c) ==
    <<c.context.options.num_queries, c.context.options.blowup_factor,
      c.context.options.grinding_factor, c.context.options.degree,
      c.context.num_modulus_bits, c.context.trace_length,
      c.COLLISION_RESISTANCE, c.conjectured>>

\* the parameters in which two calls differ
Changed(c, e) == {i \in 1..8 : Parameters(c)[i] # Parameters(e)[i]}

InitSecurity ==
    /\ params \in Calls
    /\ level = None
    /\ params_before = None
    /\ level_before = None
    /\ proof = None
    /\ wire = None
    /\ read = None

\* StarkProof::security_level::<H>(conjectured) on a proof with the context
\* of params
SecurityLevel ==
    /\ level = None
    /\ IF params.conjectured
       THEN \E overflow_checks \in BOOLEAN :
                level' = security_level([context |-> params.context], TRUE,
                                        params.COLLISION_RESISTANCE, overflow_checks)
       ELSE level' = security_level([context |-> params.context], FALSE,
                                    params.COLLISION_RESISTANCE, FALSE)
    /\ UNCHANGED <<proof, wire, read, params, params_before, level_before>>

\* prove_security_tests: the proven security of a second parameter set, equal
\* to the first but for the number of queries, the blowup factor, the
\* extension degree or the trace length
SecondParameters ==
    /\ level.kind = "ok"
    /\ params_before = None
    /\ ~params.conjectured
    /\ \E c \in Calls :
          /\ Cardinality(Changed(params, c)) = 1
          /\ Changed(params, c) \subseteq {1, 2, 4, 6}
          /\ params' = c
    /\ params_before' = params
    /\ level_before' = level
    /\ level' = None
    /\ UNCHANGED <<proof, wire, read>>

NextSecurity == SecurityLevel \/ SecondParameters

SpecSecurity == InitSecurity /\ [][NextSecurity]_vars

\* ----------------------------------------------------------- the container

\* the serialized forms of a Queries, which is opaque here: no byte or one
Payloads == {<<>>} \cup {<<b>> : b \in 0..MaxByte}
\* the Context of new_dummy: TraceInfo::new(1, 8), one trace segment of
\* length 8, ProofOptions::new(1, 2, 2, FieldExtension::None, 8, 1), over the
\* 64-bit field f64
DummyContext == Context(Options(1, 2, 2, 1), 64, 8, 1)

\* a context with 20 queries at blowup 8, whose conjectured security is that
\* of the field
QueriedContext == Context(Options(20, 8, 0, 1), 64, 8, 1)

\* contexts of proofs: that of new_dummy, the same with an auxiliary trace
\* segment, two segments in all, and QueriedContext
ProofContexts ==
    {Context(Options(1, 2, 2, 1), 64, 8, segments) : segments \in 1..2}
    \cup {QueriedContext}

StarkProof(context, num_unique_queries, commitments, trace_queries, constraint_queries, ood_frame, fri_proof, pow_nonce) ==
    [context |-> context, num_unique_queries |-> num_unique_queries,
     commitments |-> commitments, trace_queries |-> trace_queries,
     constraint_queries |-> constraint_queries, ood_frame |-> ood_frame,
     fri_proof |-> fri_proof, pow_nonce |-> pow_nonce]

\* Creates a dummy StarkProof for use in tests: no unique queries, default
\* commitments, no trace queries, constraint queries of one value, default
\* OodFrame, dummy FriProof, nonce 0
new_dummy ==
    StarkProof(DummyContext, 0, <<>>, <<>>, <<1>>, <<>>, <<>>, 0)

\* the Commitments, OodFrame, FriProof and nonce of a proof: a short nonce
\* and all three empty or one of them not, or the three empty and a long nonce
Opaques ==
    {<<<<>>, <<>>, <<>>, MaxByte>>, <<<<MaxByte>>, <<>>, <<>>, MaxByte>>,
     <<<<>>, <<MaxByte>>, <<>>, MaxByte>>, <<<<>>, <<>>, <<MaxByte>>, MaxByte>>,
     <<<<>>, <<>>, <<>>, 256 * MaxByte + 255>>}

\* the proofs a prover assembles: one unique query or as many as there are
\* queries, one Queries per trace segment, constraint Queries empty or not
AssembledProofs ==
    UNION {{StarkProof(context, unique, opaque[1], trace_queries, constraint_queries,
                       opaque[2], opaque[3], opaque[4]) :
                unique \in {1, context.options.num_queries},
                opaque \in Opaques,
                trace_queries \in [1..context.num_segments -> Payloads],
                constraint_queries \in {<<>>, <<MaxByte>>}} :
           context \in ProofContexts}

\* ------------------------------------------------------------ serialization

\* an opaque sub-object writes the number of its bytes, then its bytes
write_payload(payload) == <<Len(payload)>> \o payload

\* u64::write_into: eight bytes, little-endian (nonces below 2^24 here)
write_u64(value) ==
    <<value % 256, (value \div 256) % 256, (value \div 65536) % 256, 0, 0, 0, 0, 0>>

\* Context::write_into: the trace layout (number of segments), the logarithm
\* of the trace length, the modulus bits and the options, the field extension
\* as a discriminant and the blowup factor as its logarithm
write_context(context) ==
    <<context.num_segments, ilog2(context.trace_length), context.num_modulus_bits,
      context.options.degree, context.options.grinding_factor,
      ilog2(context.options.blowup_factor), context.options.num_queries>>

\* ByteWriter::write_many: the elements one after the other, without a count
RECURSIVE write_many(_)
write_many(elements) ==
    IF elements = <<>> THEN <<>>
    ELSE write_payload(Head(elements)) \o write_many(Tail(elements))

\* impl Serializable for StarkProof
write_into(self) ==
    write_context(self.context)
    \o <<self.num_unique_queries>>
    \o write_payload(self.commitments)
    \o write_many(self.trace_queries)
    \o write_payload(self.constraint_queries)
    \o write_payload(self.ood_frame)
    \o write_payload(self.fri_proof)
    \o write_u64(self.pow_nonce)

\* Serializes this proof into a vector of bytes.
to_bytes(self) == write_into(self)

\* ---------------------------------------------------------- deserialization

\* a value read, with the bytes of the source after it; a DeserializationError
Read(value, rest) == [kind |-> "ok", value |-> value, rest |-> rest]
DeserializationError == [kind |-> "err"]

\* the bytes of a source from position first on
From(source, first) == SubSeq(source, first, Len(source))

\* ByteReader::read_u8
read_u8(source) ==
    IF Len(source) < 1 THEN DeserializationError
    ELSE Read(source[1], From(source, 2))

\* ByteReader::read_u64
read_u64(source) ==
    IF Len(source) < 8 THEN DeserializationError
    ELSE Read(source[1] + 256 * source[2] + 65536 * source[3], From(source, 9))

\* read_from of an opaque sub-object: the number of its bytes, then its bytes
read_payload(source) ==
    IF Len(source) < 1 \/ Len(source) < 1 + source[1] THEN DeserializationError
    ELSE Read(SubSeq(source, 2, 1 + source[1]), From(source, 2 + source[1]))

\* Context::read_from: at least one trace segment, and a discriminant of
\* FieldExtension (1, 2 or 3)
read_context(source) ==
    IF Len(source) < 7 THEN DeserializationError
    ELSE IF source[1] < 1 \/ source[4] \notin {1, 2, 3} THEN DeserializationError
    ELSE Read(Context(Options(source[7], 2 ^ source[6], source[5], source[4]),
                      source[3], 2 ^ source[2], source[1]),
              From(source, 8))

\* `for _ in 0..num_trace_segments { trace_queries.push(Queries::read_from(source)?) }`
\* with the Queries read so far in queries
RECURSIVE read_trace_queries(_, _, _)
read_trace_queries(source, num_trace_segments, queries) ==
    IF Len(queries) = num_trace_segments THEN Read(queries, source)
    ELSE The({IF next.kind = "err" THEN DeserializationError
              ELSE read_trace_queries(next.rest, num_trace_segments,
                                      Append(queries, next.value)) :
              next \in {read_payload(source)}})

\* the fields after trace_queries, with the nonce taken as 0 when the source
\* ends before its eight bytes
read_proof_tail_default_nonce(context, num_unique_queries, commitments, trace_queries, source) ==
    The({IF constraint_queries.kind = "err" THEN DeserializationError ELSE
    The({IF ood_frame.kind = "err" THEN DeserializationError ELSE
    The({IF fri_proof.kind = "err" THEN DeserializationError ELSE
         Read(StarkProof(context, num_unique_queries, commitments, trace_queries,
                         constraint_queries.value, ood_frame.value, fri_proof.value,
                         IF read_u64(fri_proof.rest).kind = "err" THEN 0
                         ELSE read_u64(fri_proof.rest).value),
              <<>>) :
         fri_proof \in {read_payload(ood_frame.rest)}}) :
         ood_frame \in {read_payload(constraint_queries.rest)}}) :
         constraint_queries \in {read_payload(source)}})

\* the fields after trace_queries: constraint_queries, ood_frame, fri_proof
\* and pow_nonce, each with its `?`
read_proof_tail(context, num_unique_queries, commitments, trace_queries, source) ==
    The({IF constraint_queries.kind = "err" THEN DeserializationError ELSE
    The({IF ood_frame.kind = "err" THEN DeserializationError ELSE
    The({IF fri_proof.kind = "err" THEN DeserializationError ELSE
    The({IF pow_nonce.kind = "err" THEN DeserializationError ELSE
         Read(StarkProof(context, num_unique_queries, commitments, trace_queries,
                         constraint_queries.value, ood_frame.value,
                         fri_proof.value, pow_nonce.value),
              pow_nonce.rest) :
         pow_nonce \in {read_u64(fri_proof.rest)}}) :
         fri_proof \in {read_payload(ood_frame.rest)}}) :
         ood_frame \in {read_payload(constraint_queries.rest)}}) :
         constraint_queries \in {read_payload(source)}})

\* impl Deserializable for StarkProof: context, num_unique_queries and
\* commitments, then as many Queries as the context has trace segments, then
\* the rest; the first error is returned
read_from(source) ==
    The({IF context.kind = "err" THEN DeserializationError ELSE
    The({IF num_unique_queries.kind = "err" THEN DeserializationError ELSE
    The({IF commitments.kind = "err" THEN DeserializationError ELSE
    The({IF trace_queries.kind = "err" THEN DeserializationError ELSE
         read_proof_tail(context.value, num_unique_queries.value, commitments.value,
                         trace_queries.value, trace_queries.rest) :
         trace_queries \in {read_trace_queries(commitments.rest,
                                               context.value.num_segments, <<>>)}}) :
         commitments \in {read_payload(num_unique_queries.rest)}}) :
         num_unique_queries \in {read_u8(context.rest)}}) :
         context \in {read_context(source)}})

\* Returns a STARK proof read from the specified source, or an error;
\* Deserializable::read_from_bytes leaves unread bytes alone
from_bytes(source) ==
    The({IF result.kind = "err" THEN DeserializationError
         ELSE [kind |-> "ok", value |-> result.value] :
         result \in {read_from(source)}})

\* ------------------------------------------------------ the life of a proof

Init ==
    /\ proof = None
    /\ wire = None
    /\ read = None
    /\ params = None
    /\ level = None
    /\ params_before = None
    /\ level_before = None

\* StarkProof::new_dummy()
NewDummy ==
    /\ proof = None
    /\ proof' = new_dummy
    /\ UNCHANGED <<wire, read, params, level, params_before, level_before>>

\* a prover assembles a proof
Assemble ==
    /\ proof = None
    /\ proof' \in AssembledProofs
    /\ UNCHANGED <<wire, read, params, level, params_before, level_before>>

\* the bytes in flight
Bytes(bytes) == [kind |-> "bytes", bytes |-> bytes]

\* proof.to_bytes()
ToBytes ==
    /\ proof # None
    /\ wire = None
    /\ wire' = Bytes(to_bytes(proof))
    /\ UNCHANGED <<proof, read, params, level, params_before, level_before>>

\* the bytes lose their end on the way: a strict prefix arrives
Truncate ==
    /\ wire # None
    /\ read = None
    /\ wire = Bytes(to_bytes(proof))
    /\ \E length \in 0..(Len(wire.bytes) - 1) :
           wire' = Bytes(SubSeq(wire.bytes, 1, length))
    /\ UNCHANGED <<proof, read, params, level, params_before, level_before>>

\* the byte of the FieldExtension discriminant arrives as 0, which is none
Corrupt ==
    /\ wire # None
    /\ read = None
    /\ wire = Bytes(to_bytes(proof))
    /\ wire' = Bytes([wire.bytes EXCEPT ![4] = 0])
    /\ UNCHANGED <<proof, read, params, level, params_before, level_before>>

\* StarkProof::from_bytes(&wire)
FromBytes ==
    /\ wire # None
    /\ read = None
    /\ read' = from_bytes(wire.bytes)
    /\ UNCHANGED <<proof, wire, params, level, params_before, level_before>>

\* the hashers of a proof.security_level::<H>(conjectured) call
Hashers == CollisionResistances

\* proof.security_level::<H>(conjectured), in a build with or without
\* overflow checks
ProofSecurityLevel ==
    /\ proof # None
    /\ level = None
    /\ \E conjectured \in BOOLEAN, COLLISION_RESISTANCE \in Hashers, overflow_checks \in BOOLEAN :
           /\ conjectured \/ ~overflow_checks
           /\ params' = [context |-> proof.context, conjectured |-> conjectured,
                         COLLISION_RESISTANCE |-> COLLISION_RESISTANCE,
                         overflow_checks |-> overflow_checks]
           /\ level' = security_level(proof, conjectured, COLLISION_RESISTANCE,
                                      overflow_checks)
    /\ UNCHANGED <<proof, wire, read, params_before, level_before>>

Next ==
    \/ NewDummy
    \/ Assemble
    \/ ToBytes
    \/ Truncate
    \/ Corrupt
    \/ FromBytes
    \/ ProofSecurityLevel

Spec == Init /\ [][Next]_vars

\* ------------------------------------------ properties of the estimators

\* the second call has returned, and the two calls differ in parameter i only
Compared(i) ==
    /\ params_before # None
    /\ level.kind = "ok"
    /\ Changed(params_before, params) = {i}

\* floor(log2(n)) for 1 <= n < 2^30, by counting the powers of two up to n
FloorLog2(n) == Cardinality({e \in 1..30 : 2 ^ e <= n})

\* at the optimal m of the call c, the FRI query-phase error is below the
\* commit-phase error: the commit phase is not the limit of the estimate
QueryLimited(c) ==
    The({bits.fri_queries_err_bits < bits.fri_commit_err_bits :
         bits \in {err_bits(c.context.options, c.context.num_modulus_bits,
                            c.context.trace_length,
                            m_optimal(c.context.options, c.context.num_modulus_bits,
                                      c.context.trace_length))}})

\* C2: a value returned by security_level, conjectured or proven, is at most
\* the collision resistance of the hasher.
C2_Clamping ==
    level.kind = "ok" => ULe(level.value, params.COLLISION_RESISTANCE)

\* the proven estimate of the cubic, blowup 8, 85 queries test is 131 bits at
\* its optimal m = 3 and is returned as 128, the collision resistance
C2_Clamped ==
    /\ params = Call(FALSE, 85, 8, 20, 3, 64, 2 ^ 18, 128)
    /\ level = Ok(128)
    /\ m_optimal(params.context.options, 64, 2 ^ 18) = 3
    /\ proven_security_protocol_for_m(params.context.options, 64, 2 ^ 18, 3) = 131

\* C4: when the field is smaller than the LDE domain, or the smaller of
\* field security and query security is 0, the conjectured estimate is
\* returned as 0; when every candidate m leaves the FRI error or the smallest
\* error term below 1, the proven estimate is returned as 0; neither call
\* aborts or returns a wrapped-around value.
C4_DegenerateSecurity ==
    LET o == params.context.options
        F == params.context.num_modulus_bits * o.degree
             - FloorLog2(params.context.trace_length * o.blowup_factor)
        Q == FloorLog2(o.blowup_factor) * o.num_queries
        candidates == m_min .. (compute_upper_m(params.context.trace_length) - 1)
    IN  /\ level.kind # "panic"
        /\ level.kind = "ok" =>
               /\ 0 <= level.value
               /\ level.value <= params.COLLISION_RESISTANCE
        /\ (level # None /\ params.conjectured /\ (F <= 0 \/ Q = 0)) => level = Ok(0)
        /\ (/\ level # None
            /\ ~params.conjectured
            /\ \A m \in candidates :
                   proven_security_protocol_for_m(o, params.context.num_modulus_bits,
                                                  params.context.trace_length, m) = 0)
           => level = Ok(0)

\* C5: for inputs whose field security F is at least 1, the conjectured
\* estimate is min(min(F, Q) - 1, collision resistance), with
\* F = bits * degree - floor(log2(trace length * blowup)) and
\* Q = floor(log2(blowup)) * queries, plus the grinding factor exactly when
\* that product is at least 80.
C5_ConjecturedBound ==
    LET o == params.context.options
        F == params.context.num_modulus_bits * o.degree
             - FloorLog2(params.context.trace_length * o.blowup_factor)
        product == FloorLog2(o.blowup_factor) * o.num_queries
        Q == IF product >= 80 THEN product + o.grinding_factor ELSE product
    IN  (level # None /\ params.conjectured /\ F >= 1)
        => level = Ok(Min(Min(F, Q) - 1, params.COLLISION_RESISTANCE))

\* 40 queries at blowup 4 make exactly 80 bits: the grinding factor 20 counts,
\* and the estimate is 80 + 20 - 1
C5_AtTheFloor ==
    /\ params = Call(TRUE, 40, 4, 20, 3, 64, 8, 128)
    /\ level = Ok(99)

\* C6 as stated: with everything else fixed, the proven estimate at the longer
\* trace is at least the estimate at the shorter trace.
C6_GrowsWithTraceLength ==
    (Compared(6) /\ params_before.context.trace_length < params.context.trace_length)
    => level.value >= level_before.value

\* C6, amended: for the parameters of the trace_length test (cubic extension
\* of a 64-bit field, blowup 8, 80 queries, grinding 20, collision resistance
\* 128) and trace lengths h1 < h2 among 2^16, 2^18 and 2^20, the proven
\* estimate at h2 is at most the estimate at h1, and at 2^20 it is strictly
\* below the estimate at 2^16.
C6_ShrinksOverLongTraces ==
    (/\ Compared(6)
     /\ params_before.context.trace_length \in LongTraces
     /\ params.context.trace_length \in LongTraces
     /\ params_before.context.trace_length < params.context.trace_length)
    => /\ level.value <= level_before.value
       /\ (params_before.context.trace_length = 2 ^ 16 /\ params.context.trace_length = 2 ^ 20)
          => level.value < level_before.value

\* 128 bits at 2^16 rows, 125 bits at 2^20 rows
C6_TraceLengthTest ==
    /\ Compared(6)
    /\ params_before = Call(FALSE, 80, 8, 20, 3, 64, 2 ^ 16, 128)
    /\ params = Call(FALSE, 80, 8, 20, 3, 64, 2 ^ 20, 128)
    /\ level_before = Ok(128)
    /\ level = Ok(125)

\* C7 as stated: with everything else fixed, the proven estimate at the larger
\* blowup factor is at least the estimate at the smaller one.
C7_GrowsWithBlowup ==
    (/\ Compared(2)
     /\ params_before.context.options.blowup_factor < params.context.options.blowup_factor)
    => level.value >= level_before.value

\* C7, amended: with everything else fixed, the proven estimate at the larger
\* blowup factor b2 is at least the estimate at the smaller one whenever, at
\* b2 and its optimal m, the FRI query-phase error is below the commit-phase
\* error.
C7_GrowsWithBlowupQueryLimited ==
    (/\ Compared(2)
     /\ params_before.context.options.blowup_factor < params.context.options.blowup_factor
     /\ QueryLimited(params))
    => level.value >= level_before.value

\* a larger blowup factor, limited by the query phase, with a greater estimate
C7_BlowupGain ==
    /\ Compared(2)
    /\ params_before.context.options.blowup_factor < params.context.options.blowup_factor
    /\ level.value > level_before.value
    /\ QueryLimited(params)

\* C8: with everything else fixed, the proven estimate with more queries is at
\* least the estimate with fewer.
C8_GrowsWithQueries ==
    (/\ Compared(1)
     /\ params_before.context.options.num_queries < params.context.options.num_queries)
    => level.value >= level_before.value

\* 106 bits with 60 queries, 125 bits with 80 queries, at 2^20 rows
C8_QueriesTest ==
    /\ Compared(1)
    /\ params_before = Call(FALSE, 60, 8, 20, 3, 64, 2 ^ 20, 128)
    /\ params = Call(FALSE, 80, 8, 20, 3, 64, 2 ^ 20, 128)
    /\ level_before = Ok(106)
    /\ level = Ok(125)

\* C9: with everything else fixed, the proven estimate with the cubic
\* extension is at least the estimate with the quadratic extension; for a
\* 64-bit field, blowup 8, 85 queries, grinding 20, 2^18 rows and collision
\* resistance 128 the two estimates are 67 and 128.
C9_GrowsWithDegree ==
    (/\ Compared(4)
     /\ params_before.context.options.degree = 2
     /\ params.context.options.degree = 3)
    => /\ level.value >= level_before.value
       /\ params = Call(FALSE, 85, 8, 20, 3, 64, 2 ^ 18, 128)
          => (level_before = Ok(67) /\ level = Ok(128))

\* the extension_degree test: quadratic first, cubic second
C9_DegreeTest ==
    /\ Compared(4)
    /\ params_before = Call(FALSE, 85, 8, 20, 2, 64, 2 ^ 18, 128)
    /\ params = Call(FALSE, 85, 8, 20, 3, 64, 2 ^ 18, 128)
    /\ level_before = Ok(67)
    /\ level = Ok(128)

\* C11 as stated: for every trace size above 4 the range m_min .. m_max - 1
\* is not empty, and get_proven_security returns: the expect() aborts for
\* trace sizes up to 4 only.
C11_NonEmptySearch ==
    (level # None /\ ~params.conjectured /\ params.context.trace_length > 4)
    => /\ compute_upper_m(params.context.trace_length) > m_min
       /\ level.kind = "ok"

\* the candidates m_min .. m_max - 1 of a proven call
Candidates(c) == m_min .. (compute_upper_m(c.context.trace_length) - 1)

\* the estimates of all the candidates of a proven call
CandidateValues(c) ==
    {proven_security_protocol_for_m(c.context.options, c.context.num_modulus_bits,
                                    c.context.trace_length, m) : m \in Candidates(c)}

\* the greatest number of a finite, non-empty set of numbers
Greatest(S) == CHOOSE B \in S : \A v \in S : v <= B

\* C12: when the range m_min .. m_max - 1 is not empty, get_proven_security
\* returns the smaller of the collision resistance and the greatest estimate
\* of the candidates, whichever candidate attains it, and there are at most
\* 997 candidates.
C12_OptimalM ==
    (level # None /\ ~params.conjectured /\ Candidates(params) # {})
    => /\ Cardinality(Candidates(params)) <= 997
       /\ The({level = Ok(Min(Greatest(values), params.COLLISION_RESISTANCE)) :
                values \in {CandidateValues(params)}})

\* all 997 candidates of the 60 queries test, 106 bits at the best of them,
\* and m = 3 is not one of the best
C12_SearchOfTest ==
    /\ params = Call(FALSE, 60, 8, 20, 3, 64, 2 ^ 20, 128)
    /\ level = Ok(106)
    /\ Cardinality(Candidates(params)) = 997
    /\ proven_security_protocol_for_m(params.context.options, 64, 2 ^ 20, 3) < 106

\* ------------------------------------------- properties of the container

\* the bytes in flight are a strict prefix of the encoding of the proof
Truncated ==
    /\ wire # None
    /\ Len(wire.bytes) < Len(to_bytes(proof))
    /\ wire.bytes = SubSeq(to_bytes(proof), 1, Len(wire.bytes))

\* the bytes in flight are the encoding of the proof with the discriminant
\* of the field extension replaced by 0
Corrupted ==
    /\ wire # None
    /\ wire.bytes = [to_bytes(proof) EXCEPT ![4] = 0]

\* C1: round trip. Whenever from_bytes has read the bytes to_bytes made of a
\* proof, it has succeeded with a proof equal to that proof in every field.
C1_RoundTrip ==
    (read # None /\ wire = Bytes(to_bytes(proof)))
        => read = [kind |-> "ok", value |-> proof]

\* C3: decoding failure. Whenever from_bytes has read a strict prefix of the
\* encoding of a proof, or an encoding whose field-extension discriminant is
\* invalid, it has returned a DeserializationError, and no proof.
C3_MalformedIsAnError ==
    (read # None /\ (Truncated \/ Corrupted)) => read = DeserializationError

\* C3 happens: the encoding of a proof with two trace segments has lost its
\* last byte, a byte of pow_nonce, and from_bytes has returned an error
C3_NonceUnderrun ==
    /\ read = DeserializationError
    /\ Truncated
    /\ Len(wire.bytes) = Len(to_bytes(proof)) - 1
    /\ proof.context.num_segments = 2
    /\ Len(proof.trace_queries) = 2

\* C10: container invariant. Every proof made, and every proof from_bytes
\* returns, has as many trace Queries as its context has trace segments.
C10_QueriesPerSegment ==
    /\ proof # None => Len(proof.trace_queries) = proof.context.num_segments
    /\ read # None /\ read.kind = "ok"
           => Len(read.value.trace_queries) = read.value.context.num_segments

\* the dummy proof of the options, modulus bits and trace length of a proof
Canonical(self) ==
    StarkProof(Context(self.context.options, self.context.num_modulus_bits,
                       self.context.trace_length, 1),
               0, <<>>, <<>>, <<1>>, <<>>, <<>>, 0)

\* C13: the security level depends on the public parameters only. The level
\* returned for a proof is the level of the dummy proof with the same options,
\* modulus bits and trace length, in the same mode, with the same hasher and
\* in the same build, so two proofs that agree on these get the same level;
\* and once a proof is made, security_level, to_bytes and from_bytes leave
\* every field of it as it was.
C13_PublicParametersOnly ==
    /\ [](level # None =>
            level = security_level(Canonical(proof), params.conjectured,
                                   params.COLLISION_RESISTANCE, params.overflow_checks))
    /\ [][proof # None => proof' = proof]_vars

\* C13 happens: a proof of QueriedContext with 20 unique queries, payloads
\* and a nonce that the dummy proof does not have, has been serialized and
\* its conjectured level, 57 bits, computed
C13_LevelOfAFullProof ==
    /\ level = Ok(57)
    /\ params.conjectured
    /\ proof.context = QueriedContext
    /\ proof.num_unique_queries = 20
    /\ proof.trace_queries = <<<<MaxByte>>>>
    /\ proof.pow_nonce = 256 * MaxByte + 255
    /\ wire = Bytes(to_bytes(proof))

====
